---- MODULE Spec2Model ----
(***************************************************************************)
(* Model of the container process sentinel in src/src/main.rs:             *)
(* get_docker_directories (enumeration), get_whitelist (baseline),         *)
(* monitor_procs (one polling task per unit) and main (orchestrator).      *)
(* Strings are sequences of one-character strings.                         *)
(***************************************************************************)
EXTENDS Integers, Sequences, FiniteSets, TLC

(***************************************************************************)
(* Bounds of the model.                                                    *)
(***************************************************************************)
\* longest cgroup.procs content, in lines, that a read returns
MaxLines == 2

\* the largest reading of the clock, in ticks
MaxTime == 2

\* clock ticks per millisecond (chrono counts nanoseconds: 1,000,000 per ms)
TicksPerMs == 2

(***************************************************************************)
(* String helpers: str::starts_with and str::replace(pat, "").             *)
(***************************************************************************)
DockerPrefix == <<"d", "o", "c", "k", "e", "r", "-">>

ScopeSuffix == <<".", "s", "c", "o", "p", "e">>

StartsWith(s, pat) ==
    /\ Len(s) >= Len(pat)
    /\ SubSeq(s, 1, Len(pat)) = pat

RECURSIVE Remove(_, _)
\* s.replace(pat, ""): every non-overlapping occurrence, left to right
Remove(s, pat) ==
    IF Len(s) < Len(pat) THEN s
    ELSE IF StartsWith(s, pat)
         THEN Remove(SubSeq(s, Len(pat) + 1, Len(s)), pat)
         ELSE <<Head(s)>> \o Remove(Tail(s), pat)

\* docker_dir.replace("docker-", "").replace(".scope", "")
CleanedDockerDir(docker_dir) == Remove(Remove(docker_dir, DockerPrefix), ScopeSuffix)

(***************************************************************************)
(* Parsing of cgroup.procs: lines().filter_map(|s| s.parse().ok()) into a  *)
(* HashSet<i32>.                                                           *)
(***************************************************************************)
Digits == <<"0", "1", "2", "3", "4", "5", "6", "7", "8", "9">>

IsDigit(c) == \E i \in 1..Len(Digits) : Digits[i] = c

DigitVal(c) == (CHOOSE i \in 1..Len(Digits) : Digits[i] = c) - 1

I32Max == 2147483647

I32Min == (0 - I32Max) - 1

RECURSIVE Accumulate(_, _, _)
\* the digits folded into acc with checked_mul(10) and checked_add (checked_sub for
\* a negative number), most significant digit first: {} on overflow, else {value}
Accumulate(ds, acc, negative) ==
    IF ds = <<>> THEN {acc}
    ELSE LET d == DigitVal(Head(ds))
         IN  IF negative
             THEN IF acc < (I32Min + d + 9) \div 10 THEN {}
                  ELSE Accumulate(Tail(ds), acc * 10 - d, negative)
             ELSE IF acc > (I32Max - d) \div 10 THEN {}
                  ELSE Accumulate(Tail(ds), acc * 10 + d, negative)

\* <i32 as FromStr>::from_str(line).ok(), as the set {} (None) or {v} (Some(v))
ParseI32(line) ==
    LET signed == line # <<>> /\ Head(line) \in {"+", "-"}
        ds     == IF signed THEN Tail(line) ELSE line
    IN  IF ds # <<>> /\ (\A i \in 1..Len(ds) : IsDigit(ds[i]))
        THEN Accumulate(ds, 0, Head(line) = "-") ELSE {}

\* the HashSet<i32> collected from the lines of a file
ParseProcs(content) == UNION {ParseI32(content[i]) : i \in 1..Len(content)}

(***************************************************************************)
(* Inputs: the lines a cgroup.procs file may hold, the file contents a     *)
(* read may return, and the entries the cgroup root may hold.              *)
(***************************************************************************)
Lines ==
    { <<"1">>, <<"2">>, <<"+", "1">>, <<"x">>,
      <<"2", "1", "4", "7", "4", "8", "3", "6", "4", "8">> }

RECURSIVE SeqsUpTo(_, _)
SeqsUpTo(S, n) ==
    IF n = 0 THEN {<<>>}
    ELSE LET shorter == SeqsUpTo(S, n - 1)
         IN  shorter \cup {Append(s, x) : s \in shorter, x \in S}

FileContents == SeqsUpTo(Lines, MaxLines)

Pids == UNION {ParseI32(l) : l \in Lines}

DirA == DockerPrefix \o <<"a">> \o ScopeSuffix

DirB == DockerPrefix \o <<"b">> \o ScopeSuffix

DirAA == DockerPrefix \o DockerPrefix \o <<"a">> \o ScopeSuffix

\* entries a root directory may hold, [name, is_dir]: a host with two containers,
\* a file and a directory of another service
HostEntries ==
    { [name |-> DirA, is_dir |-> TRUE],
      [name |-> DirB, is_dir |-> TRUE],
      [name |-> DockerPrefix \o <<"f">>, is_dir |-> FALSE],
      [name |-> <<"s", "s", "h">>, is_dir |-> TRUE] }

\* a host with a single unit directory
LoneEntries ==
    { [name |-> DirA, is_dir |-> TRUE],
      [name |-> DockerPrefix \o <<"f">>, is_dir |-> FALSE],
      [name |-> <<"s", "s", "h">>, is_dir |-> TRUE] }

\* a host whose two unit directories differ only by a repeated "docker-"
TwinEntries ==
    { [name |-> DirA, is_dir |-> TRUE],
      [name |-> DirAA, is_dir |-> TRUE] }

\* the listings fs::read_dir may give: any part of either host, so at most two
\* unit directories at a time (the tasks share no state, and the reachable
\* states multiply with every further task)
Roots == (SUBSET HostEntries) \cup (SUBSET TwinEntries)

\* the sets a read of cgroup.procs may parse to
LiveSets == {ParseProcs(content) : content \in FileContents}

(***************************************************************************)
(* State.                                                                  *)
(***************************************************************************)
VARIABLES
    mainpc,         \* where main is: "read_dir", "next_entry", "whitelist", "spawn", "parked", "exited"
    exit_cause,     \* why main returned Err: "none", "enumeration", "baseline"
    entries,        \* entries of the root directory that next_entry has not yet yielded
    docker_list,    \* Vec<String> built by get_docker_directories
    whitelist,      \* Vec<(String, HashSet<i32>)> built by get_whitelist
    wl_next,        \* index into docker_list of get_whitelist's for loop
    spawn_next,     \* index into whitelist of main's spawn loop
    mpc,            \* per task, the await point of monitor_procs
    docker_dir,     \* per task, monitor_procs' docker_dir
    known_procs,    \* per task, monitor_procs' known_procs
    current_procs,  \* per task, the set parsed by the current iteration's read
    pending,        \* per task, the elements the for loop has not visited yet
    proc,           \* per task, the element being remediated, as {} or {p}
    detections,     \* per task and pid, how many times "New process detected" was printed
    remediation,    \* per task, the commands of the detection being handled
    last_poll,      \* per task, what the latest existence check and read gave
    reads_within,   \* per task, whether every set read so far was within the baseline
    poll_entry,     \* per task, known_procs and detections as the current iteration's read found them
    skipped,        \* the directories get_whitelist found without a cgroup.procs
    resident,       \* the pids the environment keeps in every cgroup.procs it lets be read
    hosts,          \* the listings of the root directory the environment may present
    clock           \* the readings Utc::now() gives during the run

vars ==
    << mainpc, exit_cause, entries, docker_list, whitelist, wl_next, spawn_next,
       mpc, docker_dir, known_procs, current_procs, pending, proc, detections,
       remediation, last_poll, reads_within, poll_entry, skipped, resident,
       hosts, clock >>

main_vars ==
    << mainpc, exit_cause, entries, docker_list, whitelist, wl_next, spawn_next, skipped >>

\* what the environment holds
env_vars == << resident, hosts, clock >>

monitor_vars ==
    << mpc, docker_dir, known_procs, current_procs, pending, proc, detections,
       remediation, last_poll, reads_within, poll_entry >>

\* the monitor tasks spawned so far, in spawn order: task t runs whitelist[t]
Tasks == DOMAIN mpc

\* the instants Utc::now() may return, in clock ticks
Timestamps == 0 .. MaxTime

\* variant of Elapsed: the operands are exchanged
Elapsed_Swapped(stop_start, stop_end) == stop_start - stop_end

\* stop_end - stop_start, in clock ticks
Elapsed(stop_start, stop_end) == stop_end - stop_start

\* duration.num_milliseconds(): whole milliseconds, rounded towards zero
NumMilliseconds(d) ==
    IF d >= 0 THEN d \div TicksPerMs ELSE 0 - ((0 - d) \div TicksPerMs)

\* no command issued yet for the detection at hand
NoRemediation ==
    [stop_id |-> <<>>, stop |-> "none", start_id |-> <<>>, start |-> "none", duration |-> FALSE,
     stop_start |-> 0, stop_end |-> 0, elapsed |-> 0, printed_ms |-> 0]

\* outside an iteration's for loop there is no snapshot
NoPoll == [known |-> {}, detections |-> [p \in Pids |-> 0]]

\* main is about to start and no task exists
InitProgram ==
    /\ mainpc = "read_dir"
    /\ exit_cause = "none"
    /\ entries = {}
    /\ docker_list = <<>>
    /\ whitelist = <<>>
    /\ wl_next = 1
    /\ spawn_next = 1
    /\ mpc = <<>>
    /\ docker_dir = <<>>
    /\ known_procs = <<>>
    /\ current_procs = <<>>
    /\ pending = <<>>
    /\ proc = <<>>
    /\ detections = <<>>
    /\ remediation = <<>>
    /\ last_poll = <<>>
    /\ reads_within = <<>>
    /\ poll_entry = <<>>
    /\ skipped = {}

\* any of the listings, no promise about what cgroup.procs holds, and a clock
\* whose readings do not differ
Init ==
    /\ InitProgram
    /\ resident = {}
    /\ hosts = Roots
    /\ clock = {0}

(***************************************************************************)
(* get_docker_directories, called by main.                                 *)
(***************************************************************************)
\* main returns Err(e): the process ends before any monitor exists
MainFails(cause) ==
    /\ mainpc' = "exited"
    /\ exit_cause' = cause

\* fs::read_dir(cgroup_path).await? fails
ReadDirErr ==
    /\ mainpc = "read_dir"
    /\ MainFails("enumeration")
    /\ UNCHANGED << entries, docker_list, whitelist, wl_next, spawn_next, skipped, env_vars, monitor_vars >>

\* fs::read_dir(cgroup_path).await? succeeds on some root directory
ReadDirOk ==
    /\ mainpc = "read_dir"
    /\ \E root \in hosts : entries' = root
    /\ mainpc' = "next_entry"
    /\ UNCHANGED << exit_cause, docker_list, whitelist, wl_next, spawn_next, skipped, env_vars, monitor_vars >>

\* variant of NextEntryErr: the failure is noted, the listing ends there and
\* the directories found so far are kept
NextEntryErr_Partial ==
    /\ mainpc = "next_entry"
    /\ entries # {}
    /\ exit_cause' = "enumeration"
    /\ mainpc' = "whitelist"
    /\ entries' = {}
    /\ UNCHANGED << docker_list, whitelist, wl_next, spawn_next, skipped, env_vars, monitor_vars >>

\* entries.next_entry().await? fails: docker_list is dropped with the frame
NextEntryErr ==
    /\ mainpc = "next_entry"
    /\ entries # {}
    /\ MainFails("enumeration")
    /\ entries' = {}
    /\ docker_list' = <<>>
    /\ UNCHANGED << whitelist, wl_next, spawn_next, skipped, env_vars, monitor_vars >>

\* the filter of the while-let body: a directory whose name starts with "docker-"
IsDockerDir(e) == e.is_dir /\ StartsWith(e.name, DockerPrefix)

\* entries.next_entry() yields Some(entry)
NextEntry ==
    /\ mainpc = "next_entry"
    /\ \E e \in entries :
        /\ entries' = entries \ {e}
        /\ docker_list' = IF IsDockerDir(e) THEN Append(docker_list, e.name) ELSE docker_list
    /\ UNCHANGED << mainpc, exit_cause, whitelist, wl_next, spawn_next, skipped, env_vars, monitor_vars >>

\* entries.next_entry() yields None: Ok(docker_list)
EnumerationDone ==
    /\ mainpc = "next_entry"
    /\ entries = {}
    /\ mainpc' = "whitelist"
    /\ UNCHANGED << exit_cause, entries, docker_list, whitelist, wl_next, spawn_next, skipped, env_vars, monitor_vars >>

(***************************************************************************)
(* get_whitelist, called by main.                                          *)
(***************************************************************************)
\* variant of WhitelistSkip: a unit without cgroup.procs gets an empty baseline
WhitelistSkip_PushEmpty ==
    /\ mainpc = "whitelist"
    /\ wl_next <= Len(docker_list)
    /\ whitelist' = Append(whitelist, <<docker_list[wl_next], {}>>)
    /\ wl_next' = wl_next + 1
    /\ skipped' = skipped \cup {docker_list[wl_next]}
    /\ UNCHANGED << mainpc, exit_cause, entries, docker_list, spawn_next, env_vars, monitor_vars >>

\* Path::new(&procs_path).exists() is false: the unit gets no entry
WhitelistSkip ==
    /\ mainpc = "whitelist"
    /\ wl_next <= Len(docker_list)
    /\ wl_next' = wl_next + 1
    /\ skipped' = skipped \cup {docker_list[wl_next]}
    /\ UNCHANGED << mainpc, exit_cause, entries, docker_list, whitelist, spawn_next, env_vars, monitor_vars >>

\* the path exists and fs::read_to_string(&procs_path).await? fails
WhitelistReadErr ==
    /\ mainpc = "whitelist"
    /\ wl_next <= Len(docker_list)
    /\ MainFails("baseline")
    /\ whitelist' = <<>>
    /\ UNCHANGED << entries, docker_list, wl_next, spawn_next, skipped, env_vars, monitor_vars >>

\* the path exists and the read succeeds: whitelist.push((docker_dir, procs))
WhitelistPush ==
    /\ mainpc = "whitelist"
    /\ wl_next <= Len(docker_list)
    /\ \E procs \in LiveSets :
        whitelist' = Append(whitelist, <<docker_list[wl_next], procs>>)
    /\ wl_next' = wl_next + 1
    /\ UNCHANGED << mainpc, exit_cause, entries, docker_list, spawn_next, skipped, env_vars, monitor_vars >>

\* the for loop ends: Ok(whitelist), and main prints both lists
WhitelistDone ==
    /\ mainpc = "whitelist"
    /\ wl_next > Len(docker_list)
    /\ mainpc' = "spawn"
    /\ UNCHANGED << exit_cause, entries, docker_list, whitelist, wl_next, spawn_next, skipped, env_vars, monitor_vars >>

(***************************************************************************)
(* main: one task per whitelist entry, then the parking loop.              *)
(***************************************************************************)
\* tokio::spawn(async move { monitor_procs(docker_dir, procs).await ... })
Spawn ==
    /\ mainpc = "spawn"
    /\ spawn_next <= Len(whitelist)
    /\ mpc' = Append(mpc, "poll")
    /\ docker_dir' = Append(docker_dir, whitelist[spawn_next][1])
    /\ known_procs' = Append(known_procs, whitelist[spawn_next][2])
    /\ current_procs' = Append(current_procs, {})
    /\ pending' = Append(pending, {})
    /\ proc' = Append(proc, {})
    /\ detections' = Append(detections, [p \in Pids |-> 0])
    /\ remediation' = Append(remediation, NoRemediation)
    /\ last_poll' = Append(last_poll, "none")
    /\ reads_within' = Append(reads_within, TRUE)
    /\ poll_entry' = Append(poll_entry, NoPoll)
    /\ spawn_next' = spawn_next + 1
    /\ UNCHANGED << mainpc, exit_cause, entries, docker_list, whitelist, wl_next, skipped, env_vars >>

\* the for loop over whitelist ends; main enters loop { sleep(3600 s).await }
SpawnDone ==
    /\ mainpc = "spawn"
    /\ spawn_next > Len(whitelist)
    /\ mainpc' = "parked"
    /\ UNCHANGED << exit_cause, entries, docker_list, whitelist, wl_next, spawn_next, skipped, env_vars, monitor_vars >>

\* variant of MainSleep: main sleeps once and returns
MainSleep_Returns ==
    /\ mainpc = "parked"
    /\ mainpc' = "exited"
    /\ UNCHANGED << exit_cause, entries, docker_list, whitelist, wl_next, spawn_next, skipped, env_vars, monitor_vars >>

\* one turn of main's loop: the sleep ends and the next one begins
MainSleep ==
    /\ mainpc = "parked"
    /\ UNCHANGED vars

(***************************************************************************)
(* monitor_procs: one task per unit.  mpc is "poll" between iterations     *)
(* (spawned, or in the end-of-iteration sleep), "reading" while awaiting   *)
(* read_to_string, "scan" at the head of the for loop, "stopping" and      *)
(* "starting" while awaiting docker, and "dead" once the future returned.  *)
(***************************************************************************)
\* variant of MonitorErr: the error of one task ends every task
MonitorErr_Abort(m, t) == [o \in DOMAIN m |-> "dead"]

\* the task's future returns Err(e); the spawn wrapper prints it and the task ends
MonitorErr(m, t) == [m EXCEPT ![t] = "dead"]

\* variant of IsNew: the contains check is left out
IsNew_Always(known, p) == TRUE

\* variant of IsNew: the contains check is inverted
IsNew_Never(known, p) == p \in known

\* !known_procs.contains(proc)
IsNew(known, p) == p \notin known

\* variant of InsertKnown: the insert is left out
InsertKnown_Skip(known, p) == known

\* variant of InsertKnown: the set is restarted from the new element
InsertKnown_Reset(known, p) == {p}

\* known_procs.insert(*proc)
InsertKnown(known, p) == known \cup {p}

\* variant of StatusSuccess: any exit status counts as success
StatusSuccess_Any(status) == TRUE

\* output.status.success()
StatusSuccess(status) == status = "ok"

\* variant of PollAbsent: no existence check, so the read of the missing file fails
PollAbsent_Unchecked(t) ==
    /\ mpc[t] = "poll"
    /\ mpc' = [mpc EXCEPT ![t] = "dead"]
    /\ last_poll' = [last_poll EXCEPT ![t] = "absent"]
    /\ UNCHANGED << docker_dir, known_procs, current_procs, pending, proc, detections, remediation >>
    /\ UNCHANGED << reads_within, poll_entry >>
    /\ UNCHANGED << main_vars, env_vars >>

\* the sleep ends and Path::new(&cgroup_path).exists() is false: the if body is skipped
PollAbsent(t) ==
    /\ mpc[t] = "poll"
    /\ last_poll' = [last_poll EXCEPT ![t] = "absent"]
    /\ UNCHANGED << mpc, docker_dir, known_procs, current_procs, pending, proc, detections, remediation >>
    /\ UNCHANGED << reads_within, poll_entry >>
    /\ UNCHANGED << main_vars, env_vars >>

\* the sleep ends and the path exists: fs::read_to_string is awaited
PollPresent(t) ==
    /\ mpc[t] = "poll"
    /\ mpc' = [mpc EXCEPT ![t] = "reading"]
    /\ last_poll' = [last_poll EXCEPT ![t] = "reading"]
    /\ UNCHANGED << docker_dir, known_procs, current_procs, pending, proc, detections, remediation >>
    /\ UNCHANGED << reads_within, poll_entry >>
    /\ UNCHANGED << main_vars, env_vars >>

\* fs::read_to_string(&cgroup_path).await? fails (file gone since the check, permissions)
ReadErr(t) ==
    /\ mpc[t] = "reading"
    /\ mpc' = MonitorErr(mpc, t)
    /\ last_poll' = [last_poll EXCEPT ![t] = "read_err"]
    /\ UNCHANGED << docker_dir, known_procs, current_procs, pending, proc, detections, remediation >>
    /\ UNCHANGED << reads_within, poll_entry >>
    /\ UNCHANGED << main_vars, env_vars >>

\* the read succeeds: current_procs is parsed and the for loop begins
ReadOk(t) ==
    /\ mpc[t] = "reading"
    /\ \E procs \in LiveSets :
        /\ resident \subseteq procs
        /\ current_procs' = [current_procs EXCEPT ![t] = procs]
        /\ reads_within' = [reads_within EXCEPT ![t] =
                reads_within[t] /\ procs \subseteq whitelist[t][2]]
        /\ pending' = [pending EXCEPT ![t] = procs]
        /\ last_poll' = [last_poll EXCEPT ![t] =
                IF \E p \in procs : IsNew(known_procs[t], p) THEN "new" ELSE "quiet"]
    /\ poll_entry' = [poll_entry EXCEPT ![t] =
            [known |-> known_procs[t], detections |-> detections[t]]]
    /\ mpc' = [mpc EXCEPT ![t] = "scan"]
    /\ UNCHANGED << docker_dir, known_procs, proc, detections, remediation >>
    /\ UNCHANGED << main_vars, env_vars >>

\* the for loop runs out of new elements: the iteration ends and the sleep begins
ScanEnd(t) ==
    /\ mpc[t] = "scan"
    /\ \A p \in pending[t] : ~IsNew(known_procs[t], p)
    /\ mpc' = [mpc EXCEPT ![t] = "poll"]
    /\ current_procs' = [current_procs EXCEPT ![t] = {}]
    /\ pending' = [pending EXCEPT ![t] = {}]
    /\ remediation' = [remediation EXCEPT ![t] = NoRemediation]
    /\ poll_entry' = [poll_entry EXCEPT ![t] = NoPoll]
    /\ UNCHANGED << docker_dir, known_procs, proc, detections, last_poll >>
    /\ UNCHANGED << reads_within >>
    /\ UNCHANGED << main_vars, env_vars >>

\* variant of Detect: docker stop is handed to a task of its own and not awaited
Detect_Detached(t) ==
    /\ mpc[t] = "scan"
    /\ \E p \in pending[t] :
        /\ IsNew(known_procs[t], p)
        /\ pending' = [pending EXCEPT ![t] = pending[t] \ {p}]
        /\ proc' = [proc EXCEPT ![t] = {p}]
        /\ detections' = [detections EXCEPT ![t][p] = detections[t][p] + 1]
    /\ \E now \in clock :
        remediation' = [remediation EXCEPT ![t] =
            [NoRemediation EXCEPT !.stop_id = CleanedDockerDir(docker_dir[t]),
                                  !.stop = "running",
                                  !.stop_start = now]]
    /\ UNCHANGED << mpc, docker_dir, known_procs, current_procs, last_poll >>
    /\ UNCHANGED << reads_within, poll_entry >>
    /\ UNCHANGED << main_vars, env_vars >>

\* the for loop reaches a new element (in the HashSet's order, which is any order):
\* the detection line is printed and "docker stop <id>" is issued
Detect(t) ==
    /\ mpc[t] = "scan"
    /\ \E p \in pending[t] :
        /\ IsNew(known_procs[t], p)
        /\ pending' = [pending EXCEPT ![t] = pending[t] \ {p}]
        /\ proc' = [proc EXCEPT ![t] = {p}]
        /\ detections' = [detections EXCEPT ![t][p] = detections[t][p] + 1]
    /\ \E now \in clock :
        remediation' = [remediation EXCEPT ![t] =
            [NoRemediation EXCEPT !.stop_id = CleanedDockerDir(docker_dir[t]),
                                  !.stop = "running",
                                  !.stop_start = now]]
    /\ mpc' = [mpc EXCEPT ![t] = "stopping"]
    /\ UNCHANGED << docker_dir, known_procs, current_procs, last_poll >>
    /\ UNCHANGED << reads_within, poll_entry >>
    /\ UNCHANGED << main_vars, env_vars >>

\* Command::new("docker").arg("stop")...output().await? fails: docker cannot be run
StopErr(t) ==
    /\ mpc[t] = "stopping"
    /\ mpc' = MonitorErr(mpc, t)
    /\ remediation' = [remediation EXCEPT ![t].stop = "err"]
    /\ UNCHANGED << docker_dir, known_procs, current_procs, pending, proc, detections, last_poll >>
    /\ UNCHANGED << reads_within, poll_entry >>
    /\ UNCHANGED << main_vars, env_vars >>

\* variant of StopDone: docker is waited for while no other task has a command running
StopDone_Exclusive(t) ==
    /\ mpc[t] = "stopping"
    /\ \A o \in DOMAIN mpc \ {t} : mpc[o] \notin {"stopping", "starting"}
    /\ \E status \in {"ok", "fail"} :
        IF StatusSuccess(status)
        THEN /\ remediation' = [remediation EXCEPT ![t].stop = status,
                                                    ![t].start_id = CleanedDockerDir(docker_dir[t]),
                                                    ![t].start = "running"]
             /\ mpc' = [mpc EXCEPT ![t] = "starting"]
             /\ UNCHANGED << docker_dir, known_procs, proc >>
        ELSE /\ remediation' = [remediation EXCEPT ![t].stop = status]
             /\ known_procs' = [known_procs EXCEPT ![t] =
                    InsertKnown(known_procs[t], CHOOSE p \in proc[t] : TRUE)]
             /\ proc' = [proc EXCEPT ![t] = {}]
             /\ mpc' = [mpc EXCEPT ![t] = "scan"]
    /\ UNCHANGED << docker_dir, current_procs, pending, detections, last_poll >>
    /\ UNCHANGED << reads_within, poll_entry >>
    /\ UNCHANGED << main_vars, env_vars >>

\* docker stop exits: on success "docker start <id>" is issued, otherwise the
\* failure is printed and the element is inserted
StopDone(t) ==
    /\ mpc[t] = "stopping"
    /\ \E status \in {"ok", "fail"} :
        IF StatusSuccess(status)
        THEN /\ remediation' = [remediation EXCEPT ![t].stop = status,
                                                    ![t].start_id = CleanedDockerDir(docker_dir[t]),
                                                    ![t].start = "running"]
             /\ mpc' = [mpc EXCEPT ![t] = "starting"]
             /\ UNCHANGED << docker_dir, known_procs, proc >>
        ELSE /\ remediation' = [remediation EXCEPT ![t].stop = status]
             /\ known_procs' = [known_procs EXCEPT ![t] =
                    InsertKnown(known_procs[t], CHOOSE p \in proc[t] : TRUE)]
             /\ proc' = [proc EXCEPT ![t] = {}]
             /\ mpc' = [mpc EXCEPT ![t] = "scan"]
    /\ UNCHANGED << docker_dir, current_procs, pending, detections, last_poll >>
    /\ UNCHANGED << reads_within, poll_entry >>
    /\ UNCHANGED << main_vars, env_vars >>

\* Command::new("docker").arg("start")...output().await? fails: docker cannot be run
StartErr(t) ==
    /\ mpc[t] = "starting"
    /\ mpc' = MonitorErr(mpc, t)
    /\ remediation' = [remediation EXCEPT ![t].start = "err"]
    /\ UNCHANGED << docker_dir, known_procs, current_procs, pending, proc, detections, last_poll >>
    /\ UNCHANGED << reads_within, poll_entry >>
    /\ UNCHANGED << main_vars, env_vars >>

\* docker start exits: the result is printed, with the duration on success, and
\* the element is inserted
StartDone(t) ==
    /\ mpc[t] = "starting"
    /\ \E status \in {"ok", "fail"}, now \in clock :
        LET duration == Elapsed(remediation[t].stop_start, now)
        IN  remediation' = [remediation EXCEPT
                ![t].start = status,
                ![t].stop_end = now,
                ![t].elapsed = duration,
                ![t].duration = StatusSuccess(status),
                ![t].printed_ms = IF StatusSuccess(status)
                                  THEN NumMilliseconds(duration) ELSE 0]
    /\ known_procs' = [known_procs EXCEPT ![t] =
            InsertKnown(known_procs[t], CHOOSE p \in proc[t] : TRUE)]
    /\ proc' = [proc EXCEPT ![t] = {}]
    /\ mpc' = [mpc EXCEPT ![t] = "scan"]
    /\ UNCHANGED << docker_dir, current_procs, pending, detections, last_poll >>
    /\ UNCHANGED << reads_within, poll_entry >>
    /\ UNCHANGED << main_vars, env_vars >>

(***************************************************************************)
(* The program.                                                            *)
(***************************************************************************)
Next ==
    \/ ReadDirErr
    \/ ReadDirOk
    \/ NextEntryErr
    \/ NextEntry
    \/ EnumerationDone
    \/ WhitelistSkip
    \/ WhitelistReadErr
    \/ WhitelistPush
    \/ WhitelistDone
    \/ Spawn
    \/ SpawnDone
    \/ MainSleep
    \/ \E t \in Tasks : PollAbsent(t)
    \/ \E t \in Tasks : PollPresent(t)
    \/ \E t \in Tasks : ReadErr(t)
    \/ \E t \in Tasks : ReadOk(t)
    \/ \E t \in Tasks : ScanEnd(t)
    \/ \E t \in Tasks : Detect(t)
    \/ \E t \in Tasks : StopErr(t)
    \/ \E t \in Tasks : StopDone(t)
    \/ \E t \in Tasks : StartErr(t)
    \/ \E t \in Tasks : StartDone(t)

Spec == Init /\ [][Next]_vars

\* the program on a host with one unit directory and a clock whose readings
\* differ, forwards and backwards
InitTimed ==
    /\ InitProgram
    /\ resident = {}
    /\ hosts = SUBSET LoneEntries
    /\ clock = Timestamps

SpecTimed == InitTimed /\ [][Next]_vars

(***************************************************************************)
(* Helpers of the properties.                                              *)
(***************************************************************************)
\* the monitor task t has not returned
Alive(t) == mpc[t] # "dead"

\* a docker command of task t is running
InFlight(t) == mpc[t] \in {"stopping", "starting"}

\* the baseline main handed to task t
BaselineOf(t) == whitelist[t][2]

\* everything task t owns
MonitorState(t) ==
    << mpc[t], docker_dir[t], known_procs[t], current_procs[t], pending[t], proc[t], detections[t],
       remediation[t], last_poll[t], reads_within[t], poll_entry[t] >>

\* some step of task t
MonitorNext(t) ==
    \/ PollAbsent(t)
    \/ PollPresent(t)
    \/ ReadErr(t)
    \/ ReadOk(t)
    \/ ScanEnd(t)
    \/ Detect(t)
    \/ StopErr(t)
    \/ StopDone(t)
    \/ StartErr(t)
    \/ StartDone(t)

(***************************************************************************)
(* The program while the environment keeps the resident pids in every       *)
(* cgroup.procs and lets every read and every docker command complete, run  *)
(* by a scheduler that does not starve a task that can step.                *)
(***************************************************************************)
\* the indices a task can have
TaskIds == 1 .. Cardinality(HostEntries)

\* some step of task t when its reads and commands complete
MonitorCompletes(t) ==
    /\ t \in Tasks
    /\ \/ PollPresent(t)
       \/ ReadOk(t)
       \/ ScanEnd(t)
       \/ Detect(t)
       \/ StopDone(t)
       \/ StartDone(t)

InitLive ==
    /\ InitProgram
    /\ resident \in (SUBSET Pids) \ {{}}
    /\ hosts = SUBSET HostEntries
    /\ clock = {0}

NextLive ==
    \/ ReadDirErr
    \/ ReadDirOk
    \/ NextEntryErr
    \/ NextEntry
    \/ EnumerationDone
    \/ WhitelistSkip
    \/ WhitelistReadErr
    \/ WhitelistPush
    \/ WhitelistDone
    \/ Spawn
    \/ SpawnDone
    \/ MainSleep
    \/ \E t \in TaskIds : MonitorCompletes(t)

SpecLive ==
    /\ InitLive
    /\ [][NextLive]_vars
    /\ \A t \in TaskIds : WF_vars(MonitorCompletes(t))

(***************************************************************************)
(* Properties.                                                             *)
(***************************************************************************)
\* C1: a monitor never terminates; in particular after a live read that failed
\* (permissions, or the file vanished after the existence check) the task is
\* still in its polling loop.
C1_MonitorSurvivesReadFailure ==
    \A t \in Tasks : last_poll[t] = "read_err" => mpc[t] # "dead"

\* C2: remediation never propagates a failure to its caller: also when a docker
\* command cannot be launched, the calling monitor goes on with its loop.
C2_RemediatorNeverPropagates ==
    \A t \in Tasks :
        (remediation[t].stop = "err" \/ remediation[t].start = "err") => mpc[t] # "dead"

\* C3: once a detection has been processed (no command of it is running any
\* more), the detected identifier is in known_procs, whatever the remediation gave.
C3_DetectedIdBecomesKnown ==
    \A t \in Tasks : \A p \in Pids :
        (detections[t][p] > 0 /\ ~InFlight(t)) => p \in known_procs[t]

\* C4: an identifier is detected at most once per unit, however often later
\* polls read it again.
C4_AtMostOneDetection ==
    \A t \in Tasks : \A p \in Pids : detections[t][p] <= 1

\* C4 witness: a poll with nothing new that reads an identifier detected earlier
C4_Witness ==
    \E t \in Tasks : \E p \in Pids :
        /\ mpc[t] = "scan"
        /\ last_poll[t] = "quiet"
        /\ p \in current_procs[t]
        /\ detections[t][p] = 1

\* C5: known_procs only grows: after any step it is a superset of what it was.
C5_KnownOnlyGrows ==
    [][\A t \in Tasks : known_procs[t] \subseteq known_procs'[t]]_vars

\* C5 witness: two remediation cycles behind it, known_procs holds the baseline
\* and both detected identifiers
C5_Witness ==
    \E t \in Tasks :
        /\ mpc[t] = "poll"
        /\ BaselineOf(t) = {}
        /\ known_procs[t] = Pids
        /\ \A p \in Pids : detections[t][p] = 1

\* C6: within one remediation, a stop that exits unsuccessfully is followed by
\* no start and no duration; a start is only ever issued after a successful stop
\* with the same id.
C6_StartOnlyAfterStopSucceeded ==
    \A t \in Tasks :
        LET r == remediation[t]
        IN  /\ r.stop = "fail" => (r.start = "none" /\ ~r.duration)
            /\ r.start # "none" => (r.stop = "ok" /\ r.start_id = r.stop_id)
            /\ mpc[t] = "starting" => r.stop = "ok"

\* C6 witness: a stop has failed and been reported, the loop goes on
C6_Witness ==
    \E t \in Tasks :
        /\ mpc[t] = "scan"
        /\ remediation[t].stop = "fail"
        /\ remediation[t].start = "none"

\* C7: a baseline read failure of one unit does not end the program; only an
\* enumeration failure does.
C7_BaselineReadFailureNotFatal ==
    mainpc = "exited" => exit_cause = "enumeration"

\* C8: no two monitors have commands running for the same control-interface id:
\* distinct directory names give distinct ids.
C8_DistinctControlIds ==
    \A t \in Tasks : \A o \in Tasks :
        (t # o /\ InFlight(t) /\ InFlight(o)) => remediation[t].stop_id # remediation[o].stop_id

\* C9: what happens in one monitor (a hung or failed command, a failed read, the
\* task ending with an error) never stops another monitor or main: a step that
\* changes one monitor leaves every other monitor and a parked main as they
\* were, and a live monitor always has a next step, whatever the others do.
C9_MonitorsIndependent ==
    /\ [](\A t \in Tasks : Alive(t) => ENABLED MonitorNext(t))
    /\ [][\A t \in Tasks : \A o \in Tasks :
            (t # o /\ Alive(o) /\ MonitorState(o)' # MonitorState(o))
                => (MonitorState(t)' = MonitorState(t) /\ main_vars' = main_vars)]_vars

\* C9 witness: one monitor has ended with a read error while another one, with a
\* remediation done, has a docker command running
C9_Witness ==
    \E t \in Tasks : \E o \in Tasks :
        /\ t # o
        /\ mpc[t] = "dead"
        /\ last_poll[t] = "read_err"
        /\ mainpc = "parked"
        /\ mpc[o] = "stopping"
        /\ known_procs[o] # BaselineOf(o)

\* C10: an iteration whose existence check finds the file absent raises no
\* error, detects nothing, runs no command, leaves known_procs as it was, and the
\* monitor is at its next poll.
C10_AbsentIterationIsIdle ==
    [][\A t \in Tasks :
            (mpc[t] = "poll" /\ last_poll'[t] = "absent")
                => /\ mpc'[t] = "poll"
                   /\ known_procs'[t] = known_procs[t]
                   /\ detections'[t] = detections[t]
                   /\ remediation'[t] = remediation[t]]_vars

\* C10 witness: a unit that has had a detection is found absent and idles
C10_Witness ==
    \E t \in Tasks : \E p \in Pids :
        /\ mpc[t] = "poll"
        /\ last_poll[t] = "absent"
        /\ detections[t][p] = 1

\* C11: a task whose every read so far gave a subset of its baseline still has
\* known_procs equal to the baseline, has printed no detection and has issued
\* no docker command.
C11_QuietWithinBaseline ==
    \A t \in Tasks :
        reads_within[t] =>
            /\ known_procs[t] = BaselineOf(t)
            /\ \A p \in Pids : detections[t][p] = 0
            /\ remediation[t] = NoRemediation
            /\ ~InFlight(t)

\* a task has just read its whole two-element baseline back and found nothing new
C11_Witness ==
    \E t \in Tasks :
        /\ reads_within[t]
        /\ mpc[t] = "scan"
        /\ last_poll[t] = "quiet"
        /\ current_procs[t] = BaselineOf(t)
        /\ Cardinality(BaselineOf(t)) = 2

\* the for loop of task t is under way: a read gave current_procs and the
\* iteration has not reached its sleep
InPoll(t) == mpc[t] \in {"scan", "stopping", "starting"}

\* C12: an iteration that read L while known_procs was K leaves its for loop
\* with exactly one detection (and one docker stop) for each pid of L \ K, none
\* for any other pid, and with known_procs equal to K \cup L.
C12_PollDetectsExactlyTheNew ==
    [][\A t \in Tasks :
        (InPoll(t) /\ mpc'[t] \in {"poll", "dead"}) =>
            /\ known_procs'[t] = poll_entry[t].known \cup current_procs[t]
            /\ \A p \in Pids :
                  detections'[t][p] - poll_entry[t].detections[p] =
                      IF p \in current_procs[t] \ poll_entry[t].known THEN 1 ELSE 0]_vars

\* C13: a directory whose cgroup.procs did not exist when get_whitelist looked
\* has no whitelist entry and no monitor task, in this state and so in every
\* later one.
C13_SkippedUnitNeverMonitored ==
    \A d \in skipped :
        /\ \A i \in DOMAIN whitelist : whitelist[i][1] # d
        /\ \A t \in Tasks : docker_dir[t] # d

\* one unit was skipped, main is parked, and the monitor of another unit has
\* already polled
C13_Witness ==
    /\ skipped # {}
    /\ mainpc = "parked"
    /\ \E t \in Tasks : last_poll[t] # "none"

\* C14: the duration line is printed exactly when both docker stop and docker
\* start ended with success, and then reports, in whole milliseconds, the reading
\* of the clock taken after start completed minus the reading taken before stop
\* was issued; when stop succeeded and start failed, the outcome is the start
\* failure and no duration is printed.
C14_DurationOnFullSuccess ==
    \A t \in Tasks :
        LET r == remediation[t]
        IN  /\ r.duration <=> (r.stop = "ok" /\ r.start = "ok")
            /\ r.duration =>
                  /\ r.elapsed = r.stop_end - r.stop_start
                  /\ r.printed_ms = NumMilliseconds(r.stop_end - r.stop_start)
            /\ (r.stop = "ok" /\ r.start = "fail") => (~r.duration /\ r.printed_ms = 0)

\* a remediation whose stop and start both succeeded took a whole millisecond or more
C14_Witness ==
    \E t \in Tasks :
        /\ remediation[t].duration
        /\ remediation[t].stop_end > remediation[t].stop_start
        /\ remediation[t].printed_ms > 0

\* C15: the remediations of two units overlap: whenever two tasks both have a
\* docker command in flight, the command of either one can complete in a step
\* that leaves the other task's command in flight.
C15_RemediationsOverlap ==
    \A t \in Tasks : \A o \in Tasks \ {t} :
        (InFlight(t) /\ InFlight(o)) =>
            ENABLED ( /\ StopDone(t) \/ StartDone(t)
                      /\ mpc'[o] = mpc[o]
                      /\ remediation'[o] = remediation[o] )

\* two tasks are both awaiting docker, one its stop and the other its start
C15_Witness ==
    \E t \in Tasks : \E o \in Tasks \ {t} :
        /\ mpc[t] = "starting" /\ remediation[t].start = "running"
        /\ mpc[o] = "stopping" /\ remediation[o].stop = "running"

\* C16: within one task remediation is synchronous: while a docker command of
\* the task is in flight the task neither reads cgroup.procs nor prints another
\* detection, and a detection is only printed when the commands of the
\* previous one have completed.
C16_RemediationIsSynchronous ==
    [][\A t \in Tasks :
        /\ InFlight(t) =>
              /\ current_procs'[t] = current_procs[t]
              /\ detections'[t] = detections[t]
              /\ mpc'[t] # "reading"
        /\ detections'[t] # detections[t] =>
              /\ ~InFlight(t)
              /\ proc[t] = {}
              /\ remediation[t].stop # "running"
              /\ remediation[t].start # "running"]_vars

\* the second detection of one iteration: its stop is in flight after the
\* remediation of the first one has completed
C16_Witness ==
    \E t \in Tasks :
        /\ mpc[t] = "stopping"
        /\ remediation[t].stop = "running"
        /\ \A p \in Pids : detections[t][p] = 1 /\ poll_entry[t].detections[p] = 0
        /\ Cardinality(known_procs[t] \cap current_procs[t]) = 1

\* the pids the for loop of task t may reach next as new
NextDetected(t) == {p \in Pids : ENABLED (Detect(t) /\ proc'[t] = {p})}

\* C17: the order in which an iteration detects its new pids is determined by
\* known_procs and the set read: in no state can the next detection of a task
\* be of more than one pid.
C17_DetectionOrderDetermined ==
    \A t \in Tasks : Cardinality(NextDetected(t)) <= 1

\* C18: once the listing of the root directory or the reading of one of its
\* entries has failed, main has returned the error, no list of units and no
\* baseline exist, no monitor task exists, and the program takes no further step.
C18_EnumerationFailureIsFatal ==
    exit_cause = "enumeration" =>
        /\ mainpc = "exited"
        /\ docker_list = <<>>
        /\ whitelist = <<>>
        /\ skipped = {}
        /\ Tasks = {}
        /\ ~ENABLED Next

\* main has returned the error of get_docker_directories
C18_Witness ==
    /\ exit_cause = "enumeration"
    /\ mainpc = "exited"
    /\ spawn_next = 1

\* C19: the set of monitor tasks is fixed at startup: a task only exists once
\* get_docker_directories and get_whitelist have returned, neither of the two is
\* entered again and their results never change afterwards, the tasks of a
\* parked main are exactly the whitelist entries in order, and a parked main
\* stays parked with the same tasks whatever has become of them.
C19_MonitorSetFixedAtStartup ==
    /\ [](Tasks # {} => mainpc \in {"spawn", "parked"})
    /\ [](mainpc = "parked" =>
            /\ Len(mpc) = Len(whitelist)
            /\ \A t \in Tasks : docker_dir[t] = whitelist[t][1])
    /\ [][/\ mainpc # "read_dir" => mainpc' # "read_dir"
          /\ mainpc \notin {"read_dir", "next_entry"} =>
                (mainpc' # "next_entry" /\ docker_list' = docker_list)
          /\ mainpc \in {"spawn", "parked"} =>
                (mainpc' \in {"spawn", "parked"} /\ whitelist' = whitelist)
          /\ mainpc = "parked" =>
                (mainpc' = "parked" /\ Tasks' = Tasks /\ docker_dir' = docker_dir)]_vars

\* main is parked over two monitor tasks that have both ended
C19_Witness ==
    /\ mainpc = "parked"
    /\ Len(mpc) = 2
    /\ \A t \in Tasks : mpc[t] = "dead"

\* C20: under fair scheduling, a pid that stays in the cgroup.procs of a
\* monitored unit, is not in the task's known_procs (nor the element the task
\* has just detected and is remediating), and whose task has all its reads and
\* docker commands complete, is eventually detected, with docker stop issued
\* for the unit.
C20_EventualDetection ==
    \A t \in TaskIds : \A p \in Pids :
        (t \in Tasks /\ p \in resident /\ p \notin known_procs[t] /\ p \notin proc[t])
            ~> ( /\ t \in Tasks
                 /\ detections[t][p] > 0
                 /\ proc[t] = {p}
                 /\ remediation[t].stop = "running"
                 /\ remediation[t].stop_id = CleanedDockerDir(docker_dir[t]) )

\* docker stop has just been issued for a resident pid that the baseline lacked
C20_Witness ==
    \E t \in Tasks : \E p \in resident :
        /\ p \notin BaselineOf(t)
        /\ proc[t] = {p}
        /\ detections[t][p] = 1
        /\ remediation[t].stop = "running"

====
